---------------------------- MODULE Spec2Model ----------------------------
(***************************************************************************)
(* Workspace Colorizer (src/src/extension.ts): the debounce scheduler, the *)
(* reconciler applyOnce, the reset command and the folder/pattern matcher. *)
(*                                                                         *)
(* Strings are sequences of one-character strings, so that String.length,  *)
(* exact key comparison and RegExp matching are computed, not assumed.     *)
(***************************************************************************)
EXTENDS Integers, Sequences, FiniteSets, TLC

(***************************************************************************)
(* JavaScript values                                                       *)
(***************************************************************************)

\* `undefined`.  Every real string is a sequence of one-character strings,
\* so this one-element sequence equals no string of the program.
undefined == <<"undefined">>

\* The literal 'original' (lines 56, 88, 116, 119, 136).
original == <<"o", "r", "i", "g", "i", "n", "a", "l">>

\* Truthiness of a string-or-undefined value: '' and undefined are falsy.
Truthy(v) == v # undefined /\ v # <<>>

(***************************************************************************)
(* Regular expressions: the fragment of the JavaScript syntax over         *)
(* literal characters, '.', postfix '*', the assertions '^' and '$', and   *)
(* '(' (which, without a closing ')', is a SyntaxError).                   *)
(***************************************************************************)

\* The character class of looksLikeRegex (line 140).
RegexMeta == {"^", "$", ".", "*", "+", "?", "(", ")", "[", "]", "{", "}", "|"}

looksLikeRegex(s) == \E i \in 1..Len(s) : s[i] \in RegexMeta

\* An atom of the fragment: '.' or a literal character.
IsAtom(c) == c \notin {"^", "$", "*", "("}

\* new RegExp(pattern) throws SyntaxError: an unterminated group, or a '*'
\* with nothing to repeat (at the start, after an assertion, after a '*').
RegExpThrows(p) ==
    \E i \in 1..Len(p) :
        \/ p[i] = "("
        \/ p[i] = "*" /\ (i = 1 \/ ~IsAtom(p[i - 1]))

AtomMatches(a, c) == a = "." \/ a = c

\* Backtracking match of the pattern from position i against s from offset
\* pos (the number of characters already consumed).
RECURSIVE MatchHere(_, _, _, _)
MatchHere(p, i, s, pos) ==
    IF i > Len(p) THEN TRUE
    ELSE IF p[i] = "^" THEN pos = 0 /\ MatchHere(p, i + 1, s, pos)
    ELSE IF p[i] = "$" THEN pos = Len(s) /\ MatchHere(p, i + 1, s, pos)
    ELSE IF i < Len(p) /\ p[i + 1] = "*"
         THEN \/ MatchHere(p, i + 2, s, pos)
              \/ /\ pos < Len(s)
                 /\ AtomMatches(p[i], s[pos + 1])
                 /\ MatchHere(p, i, s, pos + 1)
    ELSE /\ pos < Len(s)
         /\ AtomMatches(p[i], s[pos + 1])
         /\ MatchHere(p, i + 1, s, pos + 1)

\* RegExp.prototype.test: an unanchored search.
RegExpTest(p, s) == \E start \in 0..Len(s) : MatchHere(p, 1, s, start)

(***************************************************************************)
(* Bounds of the model                                                     *)
(***************************************************************************)

\* Longest folderColors mapping given to the matcher on its own.
MaxMapLen == 2

(***************************************************************************)
(* Strings used as inputs                                                  *)
(***************************************************************************)

Blue == <<"#", "1", "E", "9", "0", "F", "F">>
Red == <<"#", "F", "F", "6", "B", "6", "B">>
White == <<"#", "f", "f", "f", "f", "f", "f">>
WhiteCC == <<"#", "f", "f", "f", "f", "f", "f", "c", "c">>

\* Color values a user can put in folderColors: two #RRGGBB strings and ''.
Colors == {Blue, Red, <<>>}

\* Workspace folder names.
FolderNames == {<<"a">>, <<"a", "b">>, <<"a", ".">>, original}

\* folderColors keys: literal names, valid patterns, and the patterns
\* '(' and '*a', which new RegExp rejects.
Keys ==
    { <<"a">>, <<"a", "b">>, <<"a", ".">>, original,
      <<"^", "a">>, <<"b", "$">>, <<".", "*">>, <<"a", "*", "b">>,
      <<"(">>, <<"*", "a">> }

Entries == [key : Keys, color : Colors]

\* A ColorMap (line 3) is an object; its own string keys are enumerated in
\* insertion order, so it is a sequence of entries with distinct keys.
IsColorMap(m) == \A i, j \in 1..Len(m) : i # j => m[i].key # m[j].key

ColorMaps(n) ==
    { m \in UNION { [1..k -> Entries] : k \in 0..n } : IsColorMap(m) }

\* map[name]: the value of the own property, or undefined.
Get(map, name) ==
    IF \E i \in 1..Len(map) : map[i].key = name
    THEN (CHOOSE e \in { map[i] : i \in 1..Len(map) } : e.key = name).color
    ELSE undefined

(***************************************************************************)
(* decideDesiredKeyAndColor (lines 115-137)                                *)
(***************************************************************************)

\* The editor argument: undefined, or an editor whose document lies in the
\* workspace folder named `folder` (undefined: in no workspace folder).
NoEditor == [open |-> FALSE, folder |-> undefined]
EditorIn(f) == [open |-> TRUE, folder |-> f]
Editors == {NoEditor} \cup { EditorIn(f) : f \in FolderNames \cup {undefined} }

Choice(k, h) == [key |-> k, hex |-> h, threw |-> FALSE]

\* The call ends by an uncaught SyntaxError instead of returning.
Thrown == [key |-> undefined, hex |-> undefined, threw |-> TRUE]

RECURSIVE PatternLoop(_, _, _)

\* Without the try/catch the SyntaxError leaves the function.
CatchRethrows(map, i, name) == Thrown

\* catch { } (lines 131-133): the entry is ignored, the loop goes on.
CatchInvalid(map, i, name) == PatternLoop(map, i + 1, name)

\* The loop returns the last matching pattern instead of the first.
RECURSIVE LastMatchLoop(_, _, _)
LastMatchLoop(map, i, name) ==
    IF i < 1 THEN Choice(original, undefined)
    ELSE IF /\ looksLikeRegex(map[i].key)
            /\ ~RegExpThrows(map[i].key)
            /\ RegExpTest(map[i].key, name)
         THEN Choice(map[i].key, map[i].color)
         ELSE LastMatchLoop(map, i - 1, name)

\* for (const [pattern, color] of Object.entries(map)) (lines 127-136),
\* from entry i on.
PatternLoop(map, i, name) ==
    IF i > Len(map) THEN Choice(original, undefined)
    ELSE IF ~looksLikeRegex(map[i].key) THEN PatternLoop(map, i + 1, name)
    ELSE IF RegExpThrows(map[i].key) THEN CatchInvalid(map, i, name)
    ELSE IF RegExpTest(map[i].key, name)
         THEN Choice(map[i].key, map[i].color)
         ELSE PatternLoop(map, i + 1, name)

\* The entries are scanned from the last one down.
MatchPatternsLast(map, name) == LastMatchLoop(map, Len(map), name)

\* Lines 126-136.
MatchPatterns(map, name) == PatternLoop(map, 1, name)

\* if (map[folder.name]) (line 124).
ExactMatch(map, name) == Truthy(Get(map, name))

\* `map` is the value of get('folderColors') ?? {} (line 121).
decideDesiredKeyAndColor(editor, map) ==
    IF ~editor.open THEN Choice(original, undefined)
    ELSE IF editor.folder = undefined THEN Choice(original, undefined)
    ELSE IF ExactMatch(map, editor.folder)
         THEN Choice(editor.folder, Get(map, editor.folder))
         ELSE MatchPatterns(map, editor.folder)

(***************************************************************************)
(* colorCustomizations values: an object, null or undefined                *)
(***************************************************************************)

TitleBarAttrs ==
    { "titleBar.activeBackground", "titleBar.inactiveBackground",
      "titleBar.activeForeground", "titleBar.inactiveForeground" }
StatusBarAttrs == { "statusBar.background", "statusBar.foreground" }
Attrs == TitleBarAttrs \cup StatusBarAttrs \cup { "editor.background" }

\* An object maps every attribute to a string, or to undefined when the
\* object has no such property.
NoProps == [a \in Attrs |-> undefined]
Object(props) == [type |-> "object", props |-> props]
undefinedValue == [type |-> "undefined", props |-> NoProps]
null == [type |-> "null", props |-> NoProps]
EmptyObject == Object(NoProps)

\* a ?? b
Coalesce(a, b) == IF a.type \in {"undefined", "null"} THEN b ELSE a

\* { ...base, ...over }
Spread(base, over) ==
    Object([a \in Attrs |->
              IF over.props[a] # undefined THEN over.props[a] ELSE base.props[a]])

\* JSON.parse(JSON.stringify(obj)): a new object with the same string
\* properties.
JsonRoundTrip(obj) == Object([a \in Attrs |-> obj.props[a]])

\* clone (lines 161-163): a falsy argument is returned as it is.
clone(obj) == IF obj.type = "object" THEN JsonRoundTrip(obj) ELSE obj

(***************************************************************************)
(* withAlpha (lines 143-147)                                               *)
(***************************************************************************)

HexDigits ==
    <<"0", "1", "2", "3", "4", "5", "6", "7", "8", "9",
      "a", "b", "c", "d", "e", "f">>

\* Math.round(num / den) for num, den > 0.
Round(num, den) == (2 * num + den) \div (2 * den)

\* Number.prototype.toString(16) of 0..255.
ToString16(a) ==
    IF a < 16 THEN <<HexDigits[a + 1]>>
    ELSE <<HexDigits[(a \div 16) + 1], HexDigits[(a % 16) + 1]>>

\* The digits are not padded.
NoPadStart(str) == str

\* padStart(2, '0')
PadStart2(str) == IF Len(str) < 2 THEN <<"0">> \o str ELSE str

\* alpha is given in hundredths: 60 is 0.6.
withAlpha(hex, alpha) ==
    LET a == Round(alpha * 255, 100)
        aa == PadStart2(ToString16(a))
    IN  IF Len(hex) = 7 THEN hex \o aa ELSE hex

(***************************************************************************)
(* The values applyOnce and the reset command write                        *)
(***************************************************************************)

\* The override is removed whatever the baseline was.
RestoreRemoves(orig) == null

\* originalWorkspaceColors ?? null (lines 44 and 87).
RestoreValue(orig) == Coalesce(orig, null)

\* The status-bar keys are set whatever statusBarSync is.
StatusAlways(orig, hex, syncStatus) ==
    LET base == Coalesce(clone(orig), EmptyObject)
        all == Object([NoProps EXCEPT
                  !["titleBar.activeBackground"] = hex,
                  !["titleBar.inactiveBackground"] = withAlpha(hex, 60),
                  !["titleBar.activeForeground"] = White,
                  !["titleBar.inactiveForeground"] = WhiteCC,
                  !["statusBar.background"] = hex,
                  !["statusBar.foreground"] = White])
    IN  Spread(base, all)

\* The object literal `next` of lines 93-108.
MergeOverride(orig, hex, syncStatus) ==
    LET base == Coalesce(clone(orig), EmptyObject)
        title == Object([NoProps EXCEPT
                    !["titleBar.activeBackground"] = hex,
                    !["titleBar.inactiveBackground"] = withAlpha(hex, 60),
                    !["titleBar.activeForeground"] = White,
                    !["titleBar.inactiveForeground"] = WhiteCC])
        status == IF syncStatus
                  THEN Object([NoProps EXCEPT
                          !["statusBar.background"] = hex,
                          !["statusBar.foreground"] = White])
                  ELSE EmptyObject
    IN  Spread(Spread(base, title), status)

(***************************************************************************)
(* The host: configuration scopes                                          *)
(***************************************************************************)

\* A scope's folderColors: not set, or a ColorMap.
Unset == [set |-> FALSE, map |-> <<>>]
SetTo(m) == [set |-> TRUE, map |-> m]

\* Object settings are merged over the scopes: the Global entries, with the
\* Workspace value of a key taking precedence, then the other Workspace
\* entries.
MergeScopes(global, workspace) ==
    LET g == global.map
        w == workspace.map
        over == [i \in 1..Len(g) |->
                    IF Get(w, g[i].key) # undefined
                    THEN [key |-> g[i].key, color |-> Get(w, g[i].key)]
                    ELSE g[i]]
    IN  over \o SelectSeq(w, LAMBDA e : Get(g, e.key) = undefined)

\* getConfiguration(CFG_SECTION).get('folderColors') ?? {} (line 121).
GetFolderColors(fc) == MergeScopes(fc.Global, fc.Workspace)

\* update('colorCustomizations', value, Workspace) (lines 155-159): null
\* (and undefined) remove the Workspace value.
setWorkspaceColorCustomizations(value) == IF value.type = "object" THEN value ELSE undefinedValue

\* getConfiguration('workbench').get('colorCustomizations') (line 151):
\* the Workspace value merged over what the other scopes give.
getCurrentWorkspaceColorCustomizations(inherited, workspace) ==
    IF workspace.type # "object" THEN inherited
    ELSE IF inherited.type # "object" THEN workspace
    ELSE Spread(inherited, workspace)

(***************************************************************************)
(* Inputs of the state machine                                             *)
(***************************************************************************)

\* setTimeout calls in one behaviour.
MaxTimers == 2

\* The default of get<number>('debounceMs', 80) (line 23).
DefaultDebounceMs == 80

\* Values of the debounceMs setting.
DebounceChoices == {DefaultDebounceMs, -5}

\* The interval is not clamped.
NoClamp(n) == n

\* Math.max(0, debounceMs) (line 25).
Max0(n) == IF n < 0 THEN 0 ELSE n

\* Active editors of the state machine.
MainEditors ==
    { NoEditor, EditorIn(undefined), EditorIn(<<"a">>), EditorIn(<<"a", "b">>) }

Entry(k, c) == [key |-> k, color |-> c]

\* folderColors values of the Global (user) scope.
GlobalChoices == { Unset, SetTo(<<Entry(<<"a", "b">>, Blue)>>) }

\* folderColors values of the Workspace scope.
WorkspaceChoices ==
    { Unset,
      SetTo(<<Entry(<<"a", "b">>, Red), Entry(<<"^", "a">>, Blue)>>),
      SetTo(<<Entry(<<"^", "a">>, <<>>)>>) }

\* A workspace that already customizes colors.
Themed ==
    Object([NoProps EXCEPT
              !["titleBar.activeBackground"] = Red,
              !["statusBar.background"] = Red,
              !["editor.background"] = Blue])

\* The Workspace colorCustomizations when the extension is activated, and
\* what the other scopes give for it.
InitialWorkspaceColors == { undefinedValue, Themed }
InheritedColors == { undefinedValue, EmptyObject }

(***************************************************************************)
(* State                                                                   *)
(***************************************************************************)

VARIABLES
    originalWorkspaceColors,  \* line 8
    lastAppliedKey,           \* line 11
    applyTimer,               \* line 14: a timer id, 0 for undefined
    activated,                \* activate has run
    timers,                   \* host: the timers that are set and not fired
    nextTimerId,              \* host: the id the next setTimeout returns
    activeTextEditor,         \* host: vscode.window.activeTextEditor
    folderColors,             \* host: workspaceColorizer.folderColors by scope
    statusBarSync,            \* host: workspaceColorizer.statusBarSync
    debounceMs,               \* host: workspaceColorizer.debounceMs
    colorCustomizations,      \* host: workbench.colorCustomizations, Workspace
    awaiting,                 \* applyOnce invocations suspended at their await
    resetPc,                  \* the reset command's position
    resolved,                 \* the matcher, or withAlpha, on its own: its
                              \* result
    lastRun,                  \* history: the burst's applyOnce invocation
    seenByRun,                \* history: what the burst's invocation read
    lastWrite,                \* history: the last colorCustomizations write
    lastRejected,             \* history: the last rejected applyOnce write
    phase,                    \* history: changed / running / settled
    burst,                    \* history: scheduleApply calls of this burst
    fired,                    \* history: applyOnce invocations of this burst
    atLastCall,               \* history: what the last scheduleApply call saw
    burstChanged,             \* history: the calls of this burst saw a change
    overridden,               \* history: an override has been written
    baselineAtStartup,        \* history: the baseline activate captured
    ran,                      \* history: applyOnce has been invoked
    resetRun                  \* history: the reset command is "running",
                              \* or running and "edited" (folderColors was
                              \* changed between its steps); it is "done",
                              \* or "over" when it was edited or rejected,
                              \* with no host event since; "none" otherwise

moduleVars == <<originalWorkspaceColors, lastAppliedKey, applyTimer, activated>>
timerVars == <<timers, nextTimerId>>
settingVars == <<folderColors, statusBarSync, debounceMs>>
burstVars == <<burst, fired, atLastCall, burstChanged>>
vars ==
    <<moduleVars, timerVars, settingVars, burstVars, activeTextEditor,
      colorCustomizations, awaiting, resetPc, resolved, lastRun, seenByRun,
      lastWrite, lastRejected, phase, overridden, baselineAtStartup, ran,
      resetRun>>

NotYet == [key |-> undefined, hex |-> undefined, threw |-> FALSE]

\* What an applyOnce invocation reads from the host.
Seen(editor, fc, sync) ==
    [editor |-> editor, map |-> GetFolderColors(fc), sync |-> sync]

NoRun == [outcome |-> "none", overlapped |-> FALSE, second |-> FALSE]

NothingSeen == Seen(NoEditor, [Global |-> Unset, Workspace |-> Unset], TRUE)

NoWrite == [key |-> undefined, restore |-> FALSE]

\* The state of everything but the host's settings before activate runs.
Inactive ==
    /\ originalWorkspaceColors = undefinedValue
    /\ lastAppliedKey = undefined
    /\ applyTimer = 0
    /\ activated = FALSE
    /\ timers = {}
    /\ nextTimerId = 1
    /\ awaiting = <<>>
    /\ resetPc = "idle"
    /\ lastRun = NoRun
    /\ seenByRun = NothingSeen
    /\ lastWrite = NoWrite
    /\ lastRejected = undefined
    /\ phase = "changed"
    /\ burst = 0
    /\ fired = 0
    /\ atLastCall = NothingSeen
    /\ burstChanged = FALSE
    /\ overridden = FALSE
    /\ baselineAtStartup = undefinedValue
    /\ ran = FALSE
    /\ resetRun = "none"

Init ==
    /\ Inactive
    /\ resolved = NotYet
    /\ activeTextEditor \in MainEditors
    /\ folderColors \in [Global : GlobalChoices, Workspace : WorkspaceChoices]
    /\ statusBarSync = TRUE
    /\ debounceMs = DefaultDebounceMs
    /\ colorCustomizations \in InitialWorkspaceColors

(***************************************************************************)
(* scheduleApply (lines 20-26)                                             *)
(***************************************************************************)

\* The pending timer is left running.
NoClearTimeout(pending, handle) == pending

\* if (applyTimer) clearTimeout(applyTimer) (line 24).
ClearTimeout(pending, handle) == { t \in pending : t.id # handle }

\* The conjuncts that give the settings and the editor their next values
\* come before this one.
scheduleApply ==
    /\ nextTimerId <= MaxTimers
    /\ timers' = ClearTimeout(timers, applyTimer)
                   \cup { [id |-> nextTimerId, ms |-> Max0(debounceMs')] }
    /\ applyTimer' = nextTimerId
    /\ nextTimerId' = nextTimerId + 1
    /\ LET pending == \E t \in timers : t.id = applyTimer
           sees == Seen(activeTextEditor', folderColors', statusBarSync')
       IN  /\ burst' = IF pending THEN burst + 1 ELSE 1
           /\ burstChanged' = (pending /\ (burstChanged \/ sees # atLastCall))
           /\ atLastCall' = sees
    /\ fired' = 0
    /\ seenByRun' = NothingSeen
    /\ lastRun' = NoRun
    /\ lastRejected' = undefined

NoSchedule ==
    UNCHANGED <<timers, nextTimerId, applyTimer, burstVars, seenByRun,
                lastRun, lastRejected>>

(***************************************************************************)
(* activate (lines 16-72)                                                  *)
(***************************************************************************)

Activate ==
    /\ ~activated
    /\ activated' = TRUE
    /\ \E inherited \in InheritedColors :
          originalWorkspaceColors' = getCurrentWorkspaceColorCustomizations(inherited, colorCustomizations)
    /\ baselineAtStartup' = originalWorkspaceColors'
    /\ UNCHANGED <<settingVars, activeTextEditor>>
    /\ scheduleApply
    /\ UNCHANGED <<lastAppliedKey, colorCustomizations, awaiting, resetPc,
                   resolved, lastWrite, phase, overridden, ran, resetRun>>

(***************************************************************************)
(* applyOnce (lines 79-112)                                                *)
(***************************************************************************)

\* The comparison of line 83 is dropped: every invocation writes.
NeverSameKey(d, last) == FALSE

\* An absent lastAppliedKey is taken for equal to any key.
SameOrAbsent(d, last) == d.key = last \/ last = undefined

\* desired.key === lastAppliedKey (line 83).
SameKey(d, last) == d.key = last

\* The restore branch returns without writing.
SkipsRestore(d, orig, last, syncStatus) ==
    IF d.threw \/ SameKey(d, last) \/ ~Truthy(d.hex) THEN <<>>
    ELSE <<[key |-> d.key, then |-> d.key, restore |-> FALSE,
            value |-> MergeOverride(orig, d.hex, syncStatus)]>>

\* The invocation up to its await: what it is suspended on, if it writes.
\* `key` is desired.key, `value` the argument of the update and `then` the
\* key assigned to lastAppliedKey after the await.
applyOnce(d, orig, last, syncStatus) ==
    IF d.threw \/ SameKey(d, last) THEN <<>>
    ELSE IF ~Truthy(d.hex)
         THEN <<[key |-> d.key, then |-> original, restore |-> TRUE,
                 value |-> RestoreValue(orig)]>>
         ELSE <<[key |-> d.key, then |-> d.key, restore |-> FALSE,
                 value |-> MergeOverride(orig, d.hex, syncStatus)]>>

Without(seq, i) == SubSeq(seq, 1, i - 1) \o SubSeq(seq, i + 1, Len(seq))

\* The timer t elapses and the host calls applyOnce, which runs to its
\* first await or to its return.
TimerFires(t) ==
    /\ t \in timers
    /\ timers' = timers \ {t}
    /\ nextTimerId' = nextTimerId
    /\ LET d == decideDesiredKeyAndColor(activeTextEditor,
                                         GetFolderColors(folderColors))
           w == applyOnce(d, originalWorkspaceColors, lastAppliedKey,
                          statusBarSync)
           alone == awaiting = <<>> /\ resetPc = "idle"
       IN  /\ awaiting' = awaiting \o w
           /\ lastRun' =
                [outcome |-> IF w = <<>> THEN "skip"
                             ELSE IF w[1].restore THEN "restore"
                             ELSE "override",
                 overlapped |-> awaiting # <<>>,
                 second |-> phase = "settled"]
           /\ phase' = IF w = <<>>
                       THEN (IF phase = "settled" THEN "settled" ELSE "changed")
                       ELSE (IF alone THEN "running" ELSE "changed")
    /\ fired' = fired + 1
    /\ seenByRun' = Seen(activeTextEditor, folderColors, statusBarSync)
    /\ lastRejected' = undefined
    /\ ran' = TRUE
    /\ UNCHANGED <<moduleVars, settingVars, burst, atLastCall, burstChanged,
                   activeTextEditor, colorCustomizations, resetPc, resolved,
                   lastWrite, overridden, baselineAtStartup, resetRun>>

\* The update of line 87 or 110 is fulfilled: the configuration has the
\* value, and the invocation goes on to line 88 or 111.
WriteResolves(i) ==
    /\ i \in 1..Len(awaiting)
    /\ colorCustomizations' = setWorkspaceColorCustomizations(awaiting[i].value)
    /\ lastAppliedKey' = awaiting[i].then
    /\ awaiting' = Without(awaiting, i)
    /\ lastWrite' = [key |-> awaiting[i].then, restore |-> awaiting[i].restore]
    /\ phase' = IF phase = "running" THEN "settled" ELSE "changed"
    /\ overridden' = (overridden \/ ~awaiting[i].restore)
    /\ UNCHANGED <<originalWorkspaceColors, applyTimer, activated, timerVars,
                   settingVars, burstVars, activeTextEditor, resetPc, resolved,
                   lastRun, seenByRun, lastRejected, baselineAtStartup, ran,
                   resetRun>>

\* lastAppliedKey is assigned although the update was rejected.
AfterRejectedAssigns(w, last) == w.then

\* lastAppliedKey after a rejected update: the await of line 87 or 110
\* throws, and line 88 or 111 is not reached.
AfterRejected(w, last) == last

\* The update is rejected: the configuration keeps its value.
WriteRejects(i) ==
    /\ i \in 1..Len(awaiting)
    /\ lastAppliedKey' = AfterRejected(awaiting[i], lastAppliedKey)
    /\ awaiting' = Without(awaiting, i)
    /\ lastRejected' = awaiting[i].then
    /\ phase' = "changed"
    /\ UNCHANGED <<originalWorkspaceColors, applyTimer, activated, timerVars,
                   settingVars, burstVars, activeTextEditor,
                   colorCustomizations, resetPc, resolved, lastRun, seenByRun,
                   lastWrite, overridden, baselineAtStartup, ran,
                   resetRun>>

(***************************************************************************)
(* The subscriptions (lines 28-38)                                         *)
(***************************************************************************)

\* What none of the host's events changes.
EventFrame ==
    /\ UNCHANGED <<originalWorkspaceColors, lastAppliedKey, activated,
                   colorCustomizations, awaiting, resetPc, resolved,
                   lastWrite, overridden, baselineAtStartup, ran>>

\* A host event that is not a step of the reset command.
HostEvent(editsMapping) ==
    resetRun' = IF resetPc = "idle" THEN "none"
                ELSE IF editsMapping THEN "edited"
                ELSE resetRun

\* onDidChangeActiveTextEditor (line 29).
ChangeActiveTextEditor(e) ==
    /\ activated
    /\ e # activeTextEditor
    /\ activeTextEditor' = e
    /\ UNCHANGED settingVars
    /\ scheduleApply
    /\ phase' = "changed"
    /\ EventFrame
    /\ HostEvent(FALSE)

\* onDidSaveTextDocument (line 30).
SaveTextDocument ==
    /\ activated
    /\ UNCHANGED <<settingVars, activeTextEditor, phase>>
    /\ scheduleApply
    /\ EventFrame
    /\ HostEvent(FALSE)

\* onDidChangeWorkspaceFolders (line 31): the folder of the active document,
\* if there is one, may be renamed, removed or added, or stay what it was.
ChangeWorkspaceFolders(e) ==
    /\ activated
    /\ e.open = activeTextEditor.open
    /\ activeTextEditor' = e
    /\ UNCHANGED settingVars
    /\ scheduleApply
    /\ phase' = IF e = activeTextEditor THEN phase ELSE "changed"
    /\ EventFrame
    /\ HostEvent(FALSE)

\* onDidChangeConfiguration (lines 32-38), folderColors of one scope.
ChangeFolderColors(scope, v) ==
    /\ activated
    /\ v # folderColors[scope]
    /\ folderColors' = [folderColors EXCEPT ![scope] = v]
    /\ UNCHANGED <<statusBarSync, debounceMs, activeTextEditor>>
    /\ scheduleApply
    /\ phase' = "changed"
    /\ EventFrame
    /\ HostEvent(TRUE)

\* onDidChangeConfiguration, statusBarSync.
ChangeStatusBarSync ==
    /\ activated
    /\ statusBarSync' = ~statusBarSync
    /\ UNCHANGED <<folderColors, debounceMs, activeTextEditor>>
    /\ scheduleApply
    /\ phase' = "changed"
    /\ EventFrame
    /\ HostEvent(FALSE)

\* onDidChangeConfiguration, debounceMs.
ChangeDebounceMs(ms) ==
    /\ activated
    /\ ms # debounceMs
    /\ debounceMs' = ms
    /\ UNCHANGED <<folderColors, statusBarSync, activeTextEditor>>
    /\ scheduleApply
    /\ phase' = "changed"
    /\ EventFrame
    /\ HostEvent(FALSE)

(***************************************************************************)
(* workspaceColorizer.reset (lines 42-60)                                  *)
(***************************************************************************)

ResetFrame ==
    /\ UNCHANGED <<originalWorkspaceColors, activated, statusBarSync,
                   debounceMs, activeTextEditor, awaiting, resolved,
                   overridden, baselineAtStartup, ran>>

\* The command is invoked and is suspended at the await of line 44.
ResetInvoked ==
    /\ activated
    /\ resetPc = "idle"
    /\ resetPc' = "await1"
    /\ resetRun' = "running"
    /\ phase' = "changed"
    /\ NoSchedule
    /\ UNCHANGED <<lastAppliedKey, folderColors, colorCustomizations, lastWrite>>
    /\ ResetFrame

\* Line 44 is fulfilled; the command is suspended at the await of line 47.
ResetRestored ==
    /\ resetPc = "await1"
    /\ colorCustomizations' = setWorkspaceColorCustomizations(RestoreValue(originalWorkspaceColors))
    /\ lastWrite' = [key |-> original, restore |-> TRUE]
    /\ resetPc' = "await2"
    /\ UNCHANGED resetRun
    /\ phase' = "changed"
    /\ NoSchedule
    /\ UNCHANGED <<lastAppliedKey, folderColors>>
    /\ ResetFrame

\* The update of a scope's folderColors to undefined: the host fires
\* onDidChangeConfiguration when the scope had a value.
RemoveFolderColors(scope) ==
    /\ folderColors' = [folderColors EXCEPT ![scope] = Unset]
    /\ IF folderColors[scope].set THEN scheduleApply ELSE NoSchedule

\* Lines 47-49 are fulfilled; suspended at the await of line 52.
ResetWorkspaceRemoved ==
    /\ resetPc = "await2"
    /\ ResetFrame
    /\ RemoveFolderColors("Workspace")
    /\ resetPc' = "await3"
    /\ UNCHANGED resetRun
    /\ phase' = "changed"
    /\ UNCHANGED <<lastAppliedKey, colorCustomizations, lastWrite>>

\* Lines 52-54 are fulfilled; lines 56-59 run.
ResetGlobalRemoved ==
    /\ resetPc = "await3"
    /\ ResetFrame
    /\ RemoveFolderColors("Global")
    /\ lastAppliedKey' = original
    /\ resetPc' = "idle"
    /\ resetRun' = IF resetRun = "running" THEN "done" ELSE "over"
    /\ phase' = "changed"
    /\ UNCHANGED <<colorCustomizations, lastWrite>>

\* One of the three updates is rejected: the command ends there.
ResetRejected ==
    /\ resetPc # "idle"
    /\ resetPc' = "idle"
    /\ resetRun' = "over"
    /\ phase' = "changed"
    /\ NoSchedule
    /\ UNCHANGED <<lastAppliedKey, folderColors, colorCustomizations, lastWrite>>
    /\ ResetFrame

(***************************************************************************)
(* Specification                                                           *)
(***************************************************************************)

Next ==
    \/ Activate
    \/ \E t \in timers : TimerFires(t)
    \/ \E i \in 1..Len(awaiting) : WriteResolves(i)
    \/ \E i \in 1..Len(awaiting) : WriteRejects(i)
    \/ \E e \in MainEditors : ChangeActiveTextEditor(e)
    \/ SaveTextDocument
    \/ \E e \in MainEditors : ChangeWorkspaceFolders(e)
    \/ \E v \in GlobalChoices : ChangeFolderColors("Global", v)
    \/ \E v \in WorkspaceChoices : ChangeFolderColors("Workspace", v)
    \/ ChangeStatusBarSync
    \/ \E ms \in DebounceChoices : ChangeDebounceMs(ms)
    \/ ResetInvoked
    \/ ResetRestored
    \/ ResetWorkspaceRemoved
    \/ ResetGlobalRemoved
    \/ ResetRejected

Spec == Init /\ [][Next]_vars

(***************************************************************************)
(* The matcher on its own: decideDesiredKeyAndColor applied once to an     *)
(* editor and a folderColors mapping drawn from the bounded sets.          *)
(***************************************************************************)

InitMatch ==
    /\ Inactive
    /\ resolved = NotYet
    /\ activeTextEditor \in Editors
    /\ \E m \in ColorMaps(MaxMapLen) :
          folderColors = [Global |-> Unset, Workspace |-> SetTo(m)]
    /\ statusBarSync = TRUE
    /\ debounceMs = DefaultDebounceMs
    /\ colorCustomizations = undefinedValue

Resolve ==
    /\ resolved = NotYet
    /\ resolved' = decideDesiredKeyAndColor(activeTextEditor,
                                            GetFolderColors(folderColors))
    /\ UNCHANGED <<moduleVars, timerVars, settingVars, burstVars,
                   activeTextEditor, colorCustomizations, awaiting, resetPc,
                   lastRun, seenByRun, lastWrite, lastRejected, phase,
                   overridden, baselineAtStartup, ran, resetRun>>

NextMatch == Resolve

SpecMatch == InitMatch /\ [][NextMatch]_vars

(***************************************************************************)
(* withAlpha on its own, applied once to a string and an alpha drawn from  *)
(* the bounded sets.                                                       *)
(***************************************************************************)

\* Strings of 0, 3, 4, 7 and 9 characters.
HexInputs ==
    { Blue, Red, White, <<>>, <<"r", "e", "d">>, <<"#", "a", "b", "c">>,
      <<"1", "2", "3", "4", "5", "6", "7">>, Blue \o <<"8", "0">> }

\* alpha from 0 to 1, in hundredths.
Alphas == 0..100

InitAlpha ==
    /\ Inactive
    /\ \E h \in HexInputs, a \in Alphas :
          resolved = [hex |-> h, alpha |-> a, out |-> <<>>, done |-> FALSE]
    /\ activeTextEditor = NoEditor
    /\ folderColors = [Global |-> Unset, Workspace |-> Unset]
    /\ statusBarSync = TRUE
    /\ debounceMs = DefaultDebounceMs
    /\ colorCustomizations = undefinedValue

ApplyWithAlpha ==
    /\ ~resolved.done
    /\ resolved' = [resolved EXCEPT
                      !.out = withAlpha(resolved.hex, resolved.alpha),
                      !.done = TRUE]
    /\ UNCHANGED <<moduleVars, timerVars, settingVars, burstVars,
                   activeTextEditor, colorCustomizations, awaiting, resetPc,
                   lastRun, seenByRun, lastWrite, lastRejected, phase,
                   overridden, baselineAtStartup, ran, resetRun>>

NextAlpha == ApplyWithAlpha

SpecAlpha == InitAlpha /\ [][NextAlpha]_vars

(***************************************************************************)
(* Properties                                                              *)
(***************************************************************************)

\* What the matcher was applied to.
Folder == activeTextEditor.folder
Mapping == GetFolderColors(folderColors)
Resolved == resolved # NotYet /\ activeTextEditor.open /\ Folder # undefined

HasKey(map, name) == \E i \in 1..Len(map) : map[i].key = name

\* The entries whose key is pattern-like, compiles and matches the name.
Matching(map, name) ==
    { i \in 1..Len(map) :
        /\ looksLikeRegex(map[i].key)
        /\ ~RegExpThrows(map[i].key)
        /\ RegExpTest(map[i].key, name) }

Invalid(e) == looksLikeRegex(e.key) /\ RegExpThrows(e.key)

\* What applyOnce would decide in the current state.
Desired == decideDesiredKeyAndColor(activeTextEditor, Mapping)

\* C1: a burst of scheduleApply calls, each made while the timer of the
\* previous call is pending, has exactly one applyOnce invocation, pending
\* or made; the invocation comes after the last call of the burst and reads
\* the editor, the mapping and the settings as the last call left them.
C1_Debounce ==
    burst >= 1 =>
        /\ Cardinality(timers) + fired = 1
        /\ fired = 1 => seenByRun = atLastCall

\* C1 witness: a burst of two or more calls, with a change between them,
\* has made its one invocation.
C1_Witness == burst >= 2 /\ burstChanged /\ fired = 1 /\ seenByRun = atLastCall

\* C2: no applyOnce invocation starts while an earlier one is suspended at
\* its await.
C2_NoOverlap == ~lastRun.overlapped

\* C3: whenever lastAppliedKey is a key, the last colorCustomizations write
\* that completed is the one for that key, and it is the baseline (or the
\* removal) when the key is 'original'.
C3_KeyReflectsLastWrite ==
    lastAppliedKey # undefined =>
        /\ lastWrite.key = lastAppliedKey
        /\ lastAppliedKey = original =>
              colorCustomizations
                = setWorkspaceColorCustomizations(RestoreValue(originalWorkspaceColors))

\* C4: an applyOnce invocation that follows one whose write completed, with
\* no change of the editor, the mapping or the settings and no reset in
\* between, performs no write.
C4_SecondRunNoWrite == lastRun.second => lastRun.outcome = "skip"

\* C5 as stated: a rejected write still leaves lastAppliedKey equal to the
\* key the invocation decided on.
C5_RejectedStillAssigns ==
    [][\A i \in 1..Len(awaiting) :
          WriteRejects(i) => lastAppliedKey' = awaiting[i].then]_vars

\* C5 as amended: a rejected write leaves lastAppliedKey as it was.
C5_RejectedKeepsKey ==
    [][\A i \in 1..Len(awaiting) :
          WriteRejects(i) => lastAppliedKey' = lastAppliedKey]_vars

\* C5 witness: a write was rejected, and lastAppliedKey is not its key.
C5_Witness == lastRejected # undefined /\ lastAppliedKey # lastRejected

\* C6: the stored baseline is the one captured at startup, and when the
\* last completed write is a restore (by applyOnce or by the reset command)
\* the Workspace colorCustomizations is that baseline: the same object, or
\* no value when no baseline existed.
C6_RoundTrip ==
    /\ originalWorkspaceColors = baselineAtStartup
    /\ lastWrite.restore =>
          colorCustomizations = setWorkspaceColorCustomizations(baselineAtStartup)

\* C6 witness: an override was written over a non-empty baseline, and a
\* restore after it brought the baseline back.
C6_Witness ==
    /\ overridden
    /\ lastWrite.restore
    /\ baselineAtStartup = Themed
    /\ colorCustomizations = Themed

\* C7: an applyOnce invocation whose desired key equals lastAppliedKey
\* writes nothing and leaves lastAppliedKey and colorCustomizations alone.
C7_KeyEqualityGatesWrite ==
    [][\A t \in timers :
          (TimerFires(t) /\ Desired.key = lastAppliedKey)
             => UNCHANGED <<lastAppliedKey, colorCustomizations, awaiting>>]_vars

\* C7 witness: the invocation was skipped although the configuration it
\* would write now differs from the one in place.
C7_Witness ==
    /\ lastRun.outcome = "skip"
    /\ awaiting = <<>>
    /\ Desired.key = lastAppliedKey
    /\ Truthy(Desired.hex)
    /\ colorCustomizations
         # MergeOverride(originalWorkspaceColors, Desired.hex, statusBarSync)

\* C8: when the mapping has a key equal to the folder name, the matcher
\* returns that key with its color.
C8_ExactPrecedence ==
    (Resolved /\ HasKey(Mapping, Folder))
        => resolved = Choice(Folder, Get(Mapping, Folder))

\* C9: when the mapping has no key equal to the folder name, the matcher
\* returns the first entry, in declared order, whose pattern-like key
\* compiles and matches, and 'original' with no color when there is none.
C9_FirstDeclared ==
    (Resolved /\ ~HasKey(Mapping, Folder)) =>
        LET hits == Matching(Mapping, Folder)
        IN  IF hits = {} THEN resolved = Choice(original, undefined)
            ELSE LET first == CHOOSE i \in hits : \A j \in hits : i <= j
                 IN  resolved = Choice(Mapping[first].key, Mapping[first].color)

\* C9 witness: two patterns match and the first declared is returned.
C9_Witness ==
    /\ Resolved
    /\ ~HasKey(Mapping, Folder)
    /\ Matching(Mapping, Folder) = {1, 2}
    /\ resolved.key = Mapping[1].key

\* C10: with a pattern-like key that does not compile in the mapping, the
\* matcher does not throw and returns what it returns for the mapping
\* without such keys: a later valid matching pattern, or 'original' with no
\* color when no valid entry matches.
C10_InvalidSkipped ==
    (Resolved /\ \E i \in 1..Len(Mapping) : Invalid(Mapping[i])) =>
        LET valid == SelectSeq(Mapping, LAMBDA e : ~Invalid(e))
        IN  /\ ~resolved.threw
            /\ resolved = decideDesiredKeyAndColor(activeTextEditor, valid)
            /\ (Matching(valid, Folder) = {} /\ ~ExactMatch(valid, Folder))
                  => resolved = Choice(original, undefined)

\* C10 witness: the first entry does not compile and the second is returned.
C10_Witness ==
    /\ Resolved
    /\ Len(Mapping) = 2
    /\ Invalid(Mapping[1])
    /\ resolved = Choice(Mapping[2].key, Mapping[2].color)
    /\ looksLikeRegex(Mapping[2].key)

\* The Workspace colorCustomizations that is the baseline captured at
\* startup: the same object, or no value when no baseline existed.
BaselineInPlace ==
    colorCustomizations
      = IF baselineAtStartup.type = "object" THEN baselineAtStartup
        ELSE undefinedValue

\* C11: when the reset command completes, and folderColors was not edited
\* between its steps, the Workspace colorCustomizations is the baseline
\* captured at startup (no value when there was none), folderColors is set
\* in neither scope and lastAppliedKey is 'original'.
C11_ResetEndState ==
    [][(ResetGlobalRemoved /\ resetRun = "running") =>
          /\ BaselineInPlace'
          /\ folderColors' = [Global |-> Unset, Workspace |-> Unset]
          /\ lastAppliedKey' = original]_vars

\* What a restore is to write for the baseline b, with an empty baseline
\* taken for no baseline: b itself, or null.
VerbatimOrNull(b) ==
    IF b.type = "object" /\ b # EmptyObject THEN b ELSE null

\* C12: every restore, by applyOnce or by the reset command, writes the
\* baseline captured at startup when there is one, and null, which removes
\* the Workspace value, when the baseline was absent or the empty object.
C12_EmptyBaselineRemoved ==
    /\ \A i \in 1..Len(awaiting) :
          awaiting[i].restore
             => awaiting[i].value = VerbatimOrNull(baselineAtStartup)
    /\ lastWrite.restore =>
          colorCustomizations
            = setWorkspaceColorCustomizations(VerbatimOrNull(baselineAtStartup))

\* C13: when the write of an applyOnce invocation completes, lastAppliedKey
\* becomes the desired key that invocation computed: the matched literal or
\* pattern key, or 'original'.
C13_KeyIsDesired ==
    [][\A i \in 1..Len(awaiting) :
          WriteResolves(i) => lastAppliedKey' = awaiting[i].key]_vars

\* No workspace context, or no match: there is no active editor, or its
\* document is in no workspace folder, or no key of the mapping is or
\* matches the folder's name.
NoContext ==
    \/ ~activeTextEditor.open
    \/ Folder = undefined
    \/ ~HasKey(Mapping, Folder) /\ Matching(Mapping, Folder) = {}

\* The restore an applyOnce invocation with no match is suspended on.
RestoreToOriginal ==
    [key |-> original, then |-> original, restore |-> TRUE,
     value |-> IF originalWorkspaceColors.type = "object"
               THEN originalWorkspaceColors ELSE null]

\* C14: an applyOnce invocation with no active editor, no workspace folder
\* or no matching key decides on 'original' with no color; when
\* lastAppliedKey is not 'original' it writes the baseline (null when there
\* is none), and the completed write makes lastAppliedKey 'original'.
C14_NoMatchRestores ==
    [][/\ \A t \in timers :
             (TimerFires(t) /\ NoContext) =>
                /\ Desired = Choice(original, undefined)
                /\ lastAppliedKey # original
                      => awaiting' = Append(awaiting, RestoreToOriginal)
       /\ \A i \in 1..Len(awaiting) :
             (WriteResolves(i) /\ awaiting[i].key = original) =>
                /\ lastAppliedKey' = original
                /\ BaselineInPlace']_vars

\* C14 witness: after an override, an invocation found no key for the
\* folder of the active document and is suspended on the restore.
C14_Witness ==
    /\ overridden
    /\ fired = 1
    /\ activeTextEditor.open /\ Folder # undefined /\ NoContext
    /\ lastAppliedKey \notin {original, undefined}
    /\ awaiting = <<RestoreToOriginal>>

\* The configuration C15 describes for the color hex over the baseline.
OpaqueWhite == <<"#", "f", "f", "f", "f", "f", "f">>
MergedFor(hex, sync) ==
    Object([a \in Attrs |->
        CASE a = "titleBar.activeBackground" -> hex
          [] a = "titleBar.inactiveBackground" -> hex \o <<"9", "9">>
          [] a = "titleBar.activeForeground" -> OpaqueWhite
          [] a = "titleBar.inactiveForeground" -> OpaqueWhite \o <<"c", "c">>
          [] a = "statusBar.background" /\ sync -> hex
          [] a = "statusBar.foreground" /\ sync -> OpaqueWhite
          [] OTHER -> IF baselineAtStartup.type = "object"
                      THEN baselineAtStartup.props[a] ELSE undefined])

\* C15: an applyOnce invocation that writes for a matched color writes the
\* baseline with the four title-bar keys set (the color, the color with
\* alpha 99, #ffffff, #ffffffcc) and, if and only if statusBarSync is true,
\* the two status-bar keys set (the color, #ffffff); every other key, and
\* the status-bar keys when statusBarSync is false, is as in the baseline.
\* The completed write puts that value in the Workspace scope.
C15_MergedContent ==
    [][/\ \A t \in timers :
             (/\ TimerFires(t)
              /\ Truthy(Desired.hex)
              /\ Desired.key # lastAppliedKey) =>
                /\ Len(awaiting') = Len(awaiting) + 1
                /\ awaiting'[Len(awaiting')].value
                      = MergedFor(Desired.hex, statusBarSync)
       /\ \A i \in 1..Len(awaiting) :
             (WriteResolves(i) /\ ~awaiting[i].restore)
                => colorCustomizations' = awaiting[i].value]_vars

\* C15 witness: with statusBarSync false and a baseline that has a status-bar
\* key, a title-bar key and another key, the override written keeps the
\* baseline's status-bar and other keys and replaces the title-bar key.
C15_Witness ==
    /\ ~statusBarSync
    /\ baselineAtStartup = Themed
    /\ fired = 1
    /\ Len(awaiting) = 1
    /\ ~awaiting[1].restore
    /\ awaiting[1].value.props["statusBar.background"] = Red
    /\ awaiting[1].value.props["statusBar.foreground"] = undefined
    /\ awaiting[1].value.props["editor.background"] = Blue
    /\ awaiting[1].value.props["titleBar.activeBackground"] = Blue
    /\ awaiting[1].value.props["titleBar.inactiveBackground"]
          = Blue \o <<"9", "9">>

\* C16: at most one timer is pending; a pending timer is the one applyTimer
\* holds, set by the last scheduleApply call, and its interval is the
\* debounceMs setting as that call read it, or 0 when the setting is
\* negative. A timer that was cancelled is not pending and so never fires.
C16_OneTimer ==
    /\ Cardinality(timers) <= 1
    /\ \A t \in timers :
          /\ t.id = applyTimer
          /\ t.id = nextTimerId - 1
          /\ t.ms = IF debounceMs < 0 THEN 0 ELSE debounceMs

\* C16 witness: a second call cancelled the timer of the first, and the
\* timer it set has the interval 0 of a negative debounceMs.
C16_Witness ==
    /\ burst = 2
    /\ debounceMs < 0
    /\ timers = {[id |-> 2, ms |-> 0]}
    /\ fired = 0

\* round(alpha * 255) for alpha in hundredths: the integer n with
\* n - 1/2 <= alpha * 255 / 100 < n + 1/2.
Rounded(alpha) ==
    CHOOSE n \in 0..255 :
        /\ 100 * (2 * n - 1) <= 2 * 255 * alpha
        /\ 2 * 255 * alpha < 100 * (2 * n + 1)

\* C17: for a string of 7 characters withAlpha returns the string followed
\* by the two lowercase hex digits of round(alpha * 255), which are 99 for
\* alpha 0.6; for a string of any other length it returns the string.
C17_AlphaSuffix ==
    resolved.done =>
        IF Len(resolved.hex) = 7
        THEN LET n == Rounded(resolved.alpha)
             IN  /\ resolved.out
                      = resolved.hex
                          \o <<HexDigits[(n \div 16) + 1], HexDigits[(n % 16) + 1]>>
                 /\ resolved.alpha = 60
                      => SubSeq(resolved.out, 8, 9) = <<"9", "9">>
        ELSE resolved.out = resolved.hex

\* C17 witness: a 7-character color with alpha 0.05, whose byte 13 has one
\* hex digit, got the padded suffix 0d.
C17_Witness ==
    /\ resolved.done
    /\ resolved.hex = Blue
    /\ resolved.alpha = 5
    /\ resolved.out = Blue \o <<"0", "d">>

\* Nothing is pending: no timer, no write, no step of the reset command.
Quiet ==
    /\ activated
    /\ timers = {}
    /\ awaiting = <<>>
    /\ resetPc = "idle"

\* C18: once nothing is pending after the invocation of the last burst, that
\* invocation wrote (so that it used the colors of the mapping as they are),
\* no write of the burst was rejected and the reset command has not been
\* invoked since the last host event, lastAppliedKey is the desired key
\* for the active document and the mapping, and the Workspace
\* colorCustomizations is the configuration for it: the baseline for
\* 'original', the merged override otherwise.
C18_Converged ==
    (/\ Quiet
     /\ fired = 1
     /\ lastRun.outcome \in {"restore", "override"}
     /\ lastRejected = undefined
     /\ resetRun = "none") =>
        /\ lastAppliedKey = Desired.key
        /\ IF Desired.key = original THEN BaselineInPlace
           ELSE colorCustomizations = MergedFor(Desired.hex, statusBarSync)

\* C19: once the reset command has completed, with folderColors not edited
\* between its steps and no host event since, and nothing is pending, the
\* Workspace colorCustomizations is the baseline and lastAppliedKey is
\* 'original': no override written by an applyOnce invocation that ran
\* between the command's steps is left.
C19_ResetNotUndone ==
    (resetRun = "done" /\ Quiet)
        => (BaselineInPlace /\ lastAppliedKey = original)

\* An applyOnce invocation made by the step wrote: it is suspended at its
\* await.
Wrote == Len(awaiting') = Len(awaiting) + 1

\* C20 as stated: the first applyOnce invocation after activate writes,
\* whatever the desired key is.
C20_FirstRunWrites ==
    [][\A t \in timers : (TimerFires(t) /\ ~ran) => Wrote]_vars

\* C20 as amended: an invocation that finds lastAppliedKey absent writes,
\* whatever the desired key is, and writes the baseline (null when there is
\* none) when the desired key is 'original'; lastAppliedKey is absent until
\* a write or the reset command has completed, so that the first invocation
\* is skipped only after the reset command has assigned 'original'.
C20_AbsentKeyWrites ==
    [][/\ \A t \in timers :
             (TimerFires(t) /\ lastAppliedKey = undefined) =>
                /\ Wrote
                /\ Desired.key = original
                      => awaiting'[Len(awaiting')] = RestoreToOriginal
       /\ \A t \in timers :
             (TimerFires(t) /\ ~ran /\ ~Wrote) =>
                (lastAppliedKey = original /\ Desired.key = original)
       /\ (lastAppliedKey = undefined /\ lastAppliedKey' # undefined) =>
             \/ \E i \in 1..Len(awaiting) : WriteResolves(i)
             \/ ResetGlobalRemoved]_vars

\* C20 witness: the invocation scheduled by activate found no editor or no
\* match and lastAppliedKey absent, and is suspended on the write of null,
\* there being no baseline.
C20_Witness ==
    /\ ran
    /\ nextTimerId = 2
    /\ timers = {}
    /\ lastAppliedKey = undefined
    /\ originalWorkspaceColors = undefinedValue
    /\ awaiting = <<RestoreToOriginal>>
    /\ awaiting[1].value = null

=============================================================================
